---- MODULE Spec2Model ----
(***************************************************************************)
(* Model of the latest-ledger processor (core/processor.go): one Processor *)
(* instance, its ProcessLedger scan over the records a transaction reader  *)
(* yields, and the rate computation against PreviousLedgerCloseTime.       *)
(*                                                                         *)
(* Time values are whole seconds counted from Go's zero time.Time, so the  *)
(* zero instant is 0 and IsZero is a test on the value, as in the code.    *)
(* A float64 quotient a / b is kept as the exact fraction [num, den].      *)
(***************************************************************************)
EXTENDS Integers, Sequences, FiniteSets, TLC

\* ------------------------------------------------------------------ bounds
\* close times range up to MaxTime; a block holds at most MaxTxs records; an
\* adapter has at most MaxSubscribers registrations
MaxTime == 3
MaxTxs == 2
MaxSubscribers == 2

\* ------------------------------------------------------- program constants
\* the zero value of time.Time, the initial PreviousLedgerCloseTime
ZeroTime == 0
\* the fixed divisor of the bootstrap and fallback branches (5.0)
BootstrapDivisor == 5

\* close times of blocks: ledger.ClosedAt is the Unix time of the ledger's close,
\* which lies after the zero instant of time.Time (year 1)
Times == (ZeroTime + 1)..MaxTime

\* ----------------------------------------------------------- input domains
\* len(tx.Envelope.Operations()) and tx.Result.Result.FeeCharged of a record
OpCounts == {1, 2}
Fees == {3, 5}

\* the transaction extension reached through the envelope's arm
NoSorobanData == [has |-> FALSE, ResourceFee |-> 0, Instructions |-> 0]
SorobanExts == {[has |-> TRUE, ResourceFee |-> 7, Instructions |-> 11]}

PlainEnvelope == [Type |-> "Tx", Ext |-> NoSorobanData]

Envelopes ==
    [Type : {"Tx", "TxFeeBump", "TxV0"}, Ext : {NoSorobanData}]
        \cup [Type : {"Tx", "TxFeeBump"}, Ext : SorobanExts]

\* the records the reader returns without error: every outcome, operation
\* count and fee on a plain envelope without soroban data, and every other
\* envelope variant on a one-operation transaction
Transactions ==
    [kind : {"tx"}, ops : OpCounts, FeeCharged : Fees,
     Successful : BOOLEAN, Envelope : {PlainEnvelope}]
        \cup [kind : {"tx"}, ops : {1}, FeeCharged : {5},
              Successful : BOOLEAN, Envelope : Envelopes \ {PlainEnvelope}]

\* messages of the errors the reader can return, as word sequences
UnknownHashMsg == <<"unknown", "tx", "hash", "in", "LedgerCloseMeta">>
WrappedUnknownHashMsg == <<"read", "failed", "unknown", "tx", "hash">>
DecodeMsg == <<"xdr", "decode", "failed">>
NearMissMsg == <<"unknown", "tx", "set">>

ReadErrorMsgs == {UnknownHashMsg, WrappedUnknownHashMsg, DecodeMsg, NearMissMsg}

\* strings.Contains on word sequences
Contains(msg, pat) ==
    \E i \in 1..(Len(msg) - Len(pat) + 1) : SubSeq(msg, i, i + Len(pat) - 1) = pat

\* variant: the message is compared whole instead of searched
IsUnknownTxHashExact(msg) == msg = UnknownHashMsg

\* variant: a shorter pattern is searched
IsUnknownTxHashLoose(msg) == Contains(msg, <<"unknown", "tx">>)

IsUnknownTxHash(msg) == Contains(msg, <<"unknown", "tx", "hash">>)

\* a result entry of the block whose hash matches no envelope: the reader fails
\* on it with msg, and the fee its result reports never reaches the caller
UnknownRecord(msg, fee) == [kind |-> "unknown", msg |-> msg, FeeCharged |-> fee]

\* ------------------------------------------------------------------- state
VARIABLES
    PreviousLedgerCloseTime,  \* Processor.PreviousLedgerCloseTime
    pc,                       \* position of the ProcessLedger call: idle, scan, rate, store
    metrics,                  \* the local LatestLedger of the call in progress
    timeDiff,                 \* the divisor the rate branch used (0 before the rate is computed)
    ret,                      \* what the last finished call returned
    consumed,                 \* history: records read so far by the current or last call
    rateBranch,               \* history: rate branch taken by the current or last call
    lastClosedAt,             \* history: close time of the last block that returned a record
    processedAny,             \* history: some block has returned a record
    priorClosedAt,            \* history: lastClosedAt before the record ret holds was returned
    priorAny                  \* history: processedAny before the record ret holds was returned

\* several Processor values, each called one whole ProcessLedger at a time
VARIABLES
    instPrev,                 \* PreviousLedgerCloseTime of each Processor
    instRet,                  \* what the last call on each Processor returned
    instBlock,                \* history: the block of the last call on each Processor
    instFresh,                \* history: no call was made on the Processor since NewProcessor
    instFirst,                \* history: the last call on the Processor was its first
    shadowPrev,               \* history: PreviousLedgerCloseTime of a Processor that sees A's calls only
    shadowRet,                \* history: what that Processor returned last
    phase                     \* history: 1 after a call on A, 2 after a later call on B, 3 after a later call on A

coreVars == <<PreviousLedgerCloseTime, pc, metrics, timeDiff, ret, consumed,
              rateBranch, lastClosedAt, processedAny, priorClosedAt, priorAny>>

instVars == <<instPrev, instRet, instBlock, instFresh, instFirst,
              shadowPrev, shadowRet, phase>>

\* one Processor shared by two callers whose ProcessLedger calls may overlap
VARIABLES
    ovStored,                 \* PreviousLedgerCloseTime of the shared Processor
    ovPc,                     \* position of each caller's call: idle, test, rate, store
    ovLocal,                  \* the local LatestLedger of each caller's call
    ovNonZero,                \* what !IsZero() gave each caller at line 129
    ovRet,                    \* what the last finished call of each caller returned
    ovStart,                  \* history: ovStored when no call was running and a call began
    ovCalls                   \* history: calls that reached the rate since then (up to 3)

\* the entry points of the plugin adapter and of the WebAssembly module
VARIABLES
    adapterProcessor,         \* PluginAdapter.processor
    adapterNetworkPassphrase, \* PluginAdapter.networkPassphrase
    processor,                \* the global processor of the WebAssembly module
    consumers,                \* PluginAdapter.consumers
    processors,               \* PluginAdapter.processors
    lastEntry,                \* history: the last entry point called, its inputs and its outcome
    delivered,                \* history: the offers the last entry call made to subscribers, in order
    usedSince,                \* history: the processor of the adapter / module has returned a record
    usedBefore                \* history: a processor that was replaced since had returned a record

\* what became of the calls before the one ret is about
VARIABLES
    failedSince,              \* history: a call has failed since the last record was returned
    priorFailed               \* history: failedSince before the record ret holds was returned

ovVars == <<ovStored, ovPc, ovLocal, ovNonZero, ovRet, ovStart, ovCalls>>

entryVars == <<adapterProcessor, adapterNetworkPassphrase, processor,
               consumers, processors, lastEntry, delivered, usedSince, usedBefore>>

failVars == <<failedSince, priorFailed>>

nonCoreVars == <<instVars, ovVars, entryVars>>

nonInstVars == <<coreVars, failVars, ovVars, entryVars>>

nonOverlapVars == <<coreVars, failVars, instVars, entryVars>>

nonEntryVars == <<coreVars, failVars, instVars, ovVars>>

vars == <<coreVars, failVars, instVars, ovVars, entryVars>>

\* float64 quotient a / b as an exact fraction
Quotient(a, b) == [num |-> a, den |-> b]

\* the zero value of LatestLedger with the block-level fields filled in
NewMetrics(closedAt) ==
    [ClosedAt |-> closedAt,
     TransactionCount |-> 0, TxSetOperationCount |-> 0,
     SuccessfulOperationCount |-> 0, SuccessfulTxCount |-> 0,
     FailedTxCount |-> 0, TotalFeeCharged |-> 0,
     TransactionsPerSecond |-> Quotient(0, 1),
     SorobanTxCount |-> 0, TotalSorobanFees |-> 0,
     TotalResourceInstructions |-> 0,
     SkippedTxCount |-> 0, UnknownTxCount |-> 0]

\* the (result, error) pair of ProcessLedger; a nil result is hasResult = FALSE
NoReturn == [returned |-> FALSE, hasResult |-> FALSE, result |-> NewMetrics(ZeroTime),
             hasErr |-> FALSE, err |-> "", cause |-> <<>>]

ReturnResult(m) == [returned |-> TRUE, hasResult |-> TRUE, result |-> m,
                    hasErr |-> FALSE, err |-> "", cause |-> <<>>]

\* variant: the record under construction is returned along with the error
ReturnErrorWithRecord(e, cause) == [returned |-> TRUE, hasResult |-> TRUE,
                                   result |-> metrics,
                                   hasErr |-> TRUE, err |-> e, cause |-> cause]

ReturnError(e, cause) == [returned |-> TRUE, hasResult |-> FALSE,
                          result |-> NewMetrics(ZeroTime),
                          hasErr |-> TRUE, err |-> e, cause |-> cause]

\* NewProcessor: the close time is left at its zero value
InitCore ==
    /\ PreviousLedgerCloseTime = ZeroTime
    /\ pc = "idle"
    /\ metrics = NewMetrics(ZeroTime)
    /\ timeDiff = 0
    /\ ret = NoReturn
    /\ consumed = <<>>
    /\ rateBranch = "none"
    /\ lastClosedAt = ZeroTime
    /\ processedAny = FALSE
    /\ priorClosedAt = ZeroTime
    /\ priorAny = FALSE

\* ------------------------------------------------------------ the scan body
\* variant: the unknown record is counted but not as failed
CountUnknownNotFailed(m) ==
    [m EXCEPT !.TransactionCount = @ + 1,
              !.UnknownTxCount = @ + 1]

\* variant: the unknown record is taken back out of the successful count
CountUnknownUndoSuccess(m) ==
    [m EXCEPT !.TransactionCount = @ + 1,
              !.FailedTxCount = @ + 1,
              !.UnknownTxCount = @ + 1,
              !.SuccessfulTxCount = @ - 1]

\* variant: the unknown record is counted as a soroban transaction too
CountUnknownAsSoroban(m) ==
    [m EXCEPT !.TransactionCount = @ + 1,
              !.FailedTxCount = @ + 1,
              !.UnknownTxCount = @ + 1,
              !.SorobanTxCount = @ + 1]

\* variant: the unknown record is counted as skipped too
CountUnknownAsSkipped(m) ==
    [m EXCEPT !.TransactionCount = @ + 1,
              !.FailedTxCount = @ + 1,
              !.UnknownTxCount = @ + 1,
              !.SkippedTxCount = @ + 1]

\* the soft "unknown tx hash" branch of the read-error handling
CountUnknown(m) ==
    [m EXCEPT !.TransactionCount = @ + 1,
              !.FailedTxCount = @ + 1,
              !.UnknownTxCount = @ + 1]

\* variant: operations and fee are accumulated inside the success split
ClassifySplitFirst(m, tx) ==
    LET counted == [m EXCEPT !.TransactionCount = @ + 1]
    IN  IF tx.Successful
        THEN [counted EXCEPT !.SuccessfulTxCount = @ + 1,
                             !.SuccessfulOperationCount = @ + tx.ops,
                             !.TotalFeeCharged = @ + tx.FeeCharged]
        ELSE [counted EXCEPT !.FailedTxCount = @ + 1,
                             !.TxSetOperationCount = @ + tx.ops]

\* variant: a successful transaction counts its operations as transactions
ClassifyOpsAsTxs(m, tx) ==
    LET counted == [m EXCEPT !.TransactionCount = @ + 1,
                             !.TxSetOperationCount = @ + tx.ops,
                             !.TotalFeeCharged = @ + tx.FeeCharged]
    IN  IF tx.Successful
        THEN [counted EXCEPT !.SuccessfulTxCount = @ + tx.ops,
                             !.SuccessfulOperationCount = @ + 1]
        ELSE [counted EXCEPT !.FailedTxCount = @ + 1]

\* counting, operations, fee and the success split of one read transaction
Classify(m, tx) ==
    LET counted == [m EXCEPT !.TransactionCount = @ + 1,
                             !.TxSetOperationCount = @ + tx.ops,
                             !.TotalFeeCharged = @ + tx.FeeCharged]
    IN  IF tx.Successful
        THEN [counted EXCEPT !.SuccessfulTxCount = @ + 1,
                             !.SuccessfulOperationCount = @ + tx.ops]
        ELSE [counted EXCEPT !.FailedTxCount = @ + 1]

\* variant: only the plain envelope is inspected
hasSorobanTransactionPlainOnly(tx) ==
    CASE tx.Envelope.Type = "Tx" -> tx.Envelope.Ext.has
      [] OTHER -> FALSE

\* variant: every transaction is taken for a soroban transaction
hasSorobanTransactionAlways(tx) == TRUE

hasSorobanTransaction(tx) ==
    CASE tx.Envelope.Type = "Tx" -> tx.Envelope.Ext.has
      [] tx.Envelope.Type = "TxFeeBump" -> tx.Envelope.Ext.has
      [] OTHER -> FALSE

\* sorobanData stays at its zero value when no arm of the switch matches
getSorobanMetrics(tx) ==
    LET sorobanData ==
            CASE tx.Envelope.Type = "Tx" -> tx.Envelope.Ext
              [] tx.Envelope.Type = "TxFeeBump" -> tx.Envelope.Ext
              [] OTHER -> NoSorobanData
    IN  [resourceFee |-> sorobanData.ResourceFee,
         instructions |-> sorobanData.Instructions]

AddSoroban(m, tx) ==
    IF hasSorobanTransaction(tx)
    THEN LET sMetrics == getSorobanMetrics(tx)
         IN  [m EXCEPT !.SorobanTxCount = @ + 1,
                       !.TotalSorobanFees = @ + sMetrics.resourceFee,
                       !.TotalResourceInstructions = @ + sMetrics.instructions]
    ELSE m

\* ---------------------------------------------------------------- the rate
IsZero(t) == t = ZeroTime

\* ClosedAt.Sub(previous).Seconds(), whole seconds
ElapsedSeconds(closedAt, previous) == closedAt - previous

\* variant: no test for a missing previous close time
RateBranchNoBootstrap(previous, closedAt) ==
    IF ElapsedSeconds(closedAt, previous) > 0 THEN "elapsed" ELSE "fallback"

\* variant: an elapsed time of zero takes the elapsed branch
RateBranchZeroElapsed(previous, closedAt) ==
    IF ~IsZero(previous)
    THEN IF ElapsedSeconds(closedAt, previous) >= 0 THEN "elapsed" ELSE "fallback"
    ELSE "bootstrap"

RateBranch(previous, closedAt) ==
    IF ~IsZero(previous)
    THEN IF ElapsedSeconds(closedAt, previous) > 0 THEN "elapsed" ELSE "fallback"
    ELSE "bootstrap"

RateDivisor(previous, closedAt) ==
    IF RateBranch(previous, closedAt) = "elapsed"
    THEN ElapsedSeconds(closedAt, previous)
    ELSE BootstrapDivisor

\* ----------------------------------------------------------------- actions
\* NewLedgerTransactionReaderFromLedgerCloseMeta and the metrics literal
OpenLedger(closedAt, openOk) ==
    /\ UNCHANGED nonCoreVars
    /\ pc = "idle"
    /\ consumed' = <<>>
    /\ rateBranch' = "none"
    /\ timeDiff' = 0
    /\ IF openOk
       THEN /\ metrics' = NewMetrics(closedAt)
            /\ ret' = NoReturn
            /\ pc' = "scan"
       ELSE /\ ret' = ReturnError("error creating transaction reader", <<>>)
            /\ metrics' = NewMetrics(ZeroTime)
            /\ pc' = "idle"
    /\ priorClosedAt' = ZeroTime
    /\ priorAny' = FALSE
    /\ UNCHANGED <<PreviousLedgerCloseTime, lastClosedAt, processedAny>>

\* txReader.Read() returned a transaction
ReadTx(tx) ==
    /\ UNCHANGED nonCoreVars
    /\ pc = "scan"
    /\ Len(consumed) < MaxTxs
    /\ metrics' = AddSoroban(Classify(metrics, tx), tx)
    /\ consumed' = Append(consumed, tx)
    /\ UNCHANGED <<PreviousLedgerCloseTime, pc, timeDiff, ret, rateBranch,
                   lastClosedAt, processedAny, priorClosedAt, priorAny>>

\* variant: a record the reader reports as unknown ends the loop
ReadErrorBreaksLoop(msg, fee) ==
    /\ UNCHANGED nonCoreVars
    /\ pc = "scan"
    /\ Len(consumed) < MaxTxs
    /\ IF IsUnknownTxHash(msg)
       THEN /\ metrics' = CountUnknown(metrics)
            /\ consumed' = Append(consumed, UnknownRecord(msg, fee))
            /\ pc' = "rate"
            /\ UNCHANGED ret
       ELSE /\ ret' = ReturnError("error reading transaction", msg)
            /\ metrics' = NewMetrics(ZeroTime)
            /\ pc' = "idle"
            /\ UNCHANGED consumed
    /\ UNCHANGED <<PreviousLedgerCloseTime, timeDiff, rateBranch,
                   lastClosedAt, processedAny, priorClosedAt, priorAny>>

\* variant: the close time of the block is stored before a failing call returns
ReadErrorStoresCloseTime(msg, fee) ==
    /\ UNCHANGED nonCoreVars
    /\ pc = "scan"
    /\ Len(consumed) < MaxTxs
    /\ IF IsUnknownTxHash(msg)
       THEN /\ metrics' = CountUnknown(metrics)
            /\ consumed' = Append(consumed, UnknownRecord(msg, fee))
            /\ UNCHANGED <<pc, ret, PreviousLedgerCloseTime>>
       ELSE /\ ret' = ReturnError("error reading transaction", msg)
            /\ PreviousLedgerCloseTime' = metrics.ClosedAt
            /\ metrics' = NewMetrics(ZeroTime)
            /\ pc' = "idle"
            /\ UNCHANGED consumed
    /\ UNCHANGED <<timeDiff, rateBranch,
                   lastClosedAt, processedAny, priorClosedAt, priorAny>>

\* txReader.Read() returned an error other than io.EOF
ReadError(msg, fee) ==
    /\ UNCHANGED nonCoreVars
    /\ pc = "scan"
    /\ Len(consumed) < MaxTxs
    /\ IF IsUnknownTxHash(msg)
       THEN /\ metrics' = CountUnknown(metrics)
            /\ consumed' = Append(consumed, UnknownRecord(msg, fee))
            /\ UNCHANGED <<pc, ret>>
       ELSE /\ ret' = ReturnError("error reading transaction", msg)
            /\ metrics' = NewMetrics(ZeroTime)
            /\ pc' = "idle"
            /\ UNCHANGED consumed
    /\ UNCHANGED <<PreviousLedgerCloseTime, timeDiff, rateBranch,
                   lastClosedAt, processedAny, priorClosedAt, priorAny>>

\* txReader.Read() returned io.EOF: the loop breaks
ReadEOF ==
    /\ UNCHANGED nonCoreVars
    /\ pc = "scan"
    /\ pc' = "rate"
    /\ UNCHANGED <<PreviousLedgerCloseTime, metrics, timeDiff, ret, consumed,
                   rateBranch, lastClosedAt, processedAny, priorClosedAt, priorAny>>

\* variant: the previous close time is overwritten before the rate reads it
ComputeRateAfterStore ==
    /\ UNCHANGED nonCoreVars
    /\ pc = "rate"
    /\ LET divisor == RateDivisor(metrics.ClosedAt, metrics.ClosedAt)
       IN  /\ timeDiff' = divisor
           /\ metrics' = [metrics EXCEPT !.TransactionsPerSecond =
                              Quotient(metrics.SuccessfulOperationCount, divisor)]
    /\ rateBranch' = RateBranch(metrics.ClosedAt, metrics.ClosedAt)
    /\ pc' = "store"
    /\ UNCHANGED <<PreviousLedgerCloseTime, ret, consumed,
                   lastClosedAt, processedAny, priorClosedAt, priorAny>>

\* the transactions-per-second computation
ComputeRate ==
    /\ UNCHANGED nonCoreVars
    /\ pc = "rate"
    /\ LET divisor == RateDivisor(PreviousLedgerCloseTime, metrics.ClosedAt)
       IN  /\ timeDiff' = divisor
           /\ metrics' = [metrics EXCEPT !.TransactionsPerSecond =
                              Quotient(metrics.SuccessfulOperationCount, divisor)]
    /\ rateBranch' = RateBranch(PreviousLedgerCloseTime, metrics.ClosedAt)
    /\ pc' = "store"
    /\ UNCHANGED <<PreviousLedgerCloseTime, ret, consumed,
                   lastClosedAt, processedAny, priorClosedAt, priorAny>>

\* variant: the stored close time only moves forward
StoredCloseTimeLatest(previous, closedAt) ==
    IF closedAt > previous THEN closedAt ELSE previous

\* variant: a block that does not close later clears the stored close time
StoredCloseTimeResetOnAnomaly(previous, closedAt) ==
    IF closedAt > previous THEN closedAt ELSE ZeroTime

\* variant: a block without transactions leaves the stored close time alone
StoredCloseTimeIfTransactions(previous, closedAt) ==
    IF metrics.TransactionCount > 0 THEN closedAt ELSE previous

\* the value ProcessLedger leaves in PreviousLedgerCloseTime
StoredCloseTime(previous, closedAt) == closedAt

\* the update of the previous close time and the return of &metrics
StoreAndReturn ==
    /\ UNCHANGED nonCoreVars
    /\ pc = "store"
    /\ PreviousLedgerCloseTime' = StoredCloseTime(PreviousLedgerCloseTime, metrics.ClosedAt)
    /\ ret' = ReturnResult(metrics)
    /\ metrics' = NewMetrics(ZeroTime)
    /\ pc' = "idle"
    /\ priorClosedAt' = lastClosedAt
    /\ priorAny' = processedAny
    /\ lastClosedAt' = metrics.ClosedAt
    /\ processedAny' = TRUE
    /\ UNCHANGED <<timeDiff, consumed, rateBranch>>

\* ------------------------------------------------------ calls that fail
\* a step in which a call returns an error: the reader cannot be created, or
\* a read fails for good
FailingStep ==
    /\ pc' = "idle"
    /\ ret'.hasErr
    /\ pc \in {"idle", "scan"}

\* a step in which a call returns a record
ReturningStep == pc = "store" /\ pc' = "idle"

InitFailures ==
    /\ failedSince = FALSE
    /\ priorFailed = FALSE

\* the history of failed calls, kept beside a step of ProcessLedger
TrackFailures ==
    /\ failedSince' = IF FailingStep THEN TRUE
                      ELSE IF ReturningStep THEN FALSE
                      ELSE failedSince
    /\ priorFailed' = IF ReturningStep THEN failedSince
                      ELSE IF pc = "idle" THEN FALSE
                      ELSE priorFailed

\* the reads of the blocks whose calls are followed this way: a successful
\* transaction of two operations, a record the reader reports as unknown, and
\* a read that fails for good
CallReads ==
    {[kind |-> "tx", ops |-> 2, FeeCharged |-> 3, Successful |-> TRUE,
      Envelope |-> PlainEnvelope]}

CallErrorMsgs == {UnknownHashMsg, DecodeMsg}

CallFees == {3}

\* ------------------------------------------------- one whole ProcessLedger
\* a read of the reader that returned an error with msg; fee is the fee the
\* result entry reports
FailedRead(msg, fee) == [kind |-> "error", msg |-> msg, FeeCharged |-> fee]

SeqsUpTo(S, n) == UNION {[1..k -> S] : k \in 0..n}

\* a block as the reader presents it under the Processor's passphrase: whether
\* the reader can be created, and what the reads return before io.EOF
BlocksOver(reads) ==
    [ClosedAt : Times, opens : {TRUE}, reads : SeqsUpTo(reads, MaxTxs)]
        \cup [ClosedAt : Times, opens : {FALSE}, reads : {<<>>}]

\* the loop of ProcessLedger over the reads of a block, up to io.EOF or to the
\* first read that fails with another message than "unknown tx hash"
RECURSIVE ScanReads(_, _)
ScanReads(m, reads) ==
    IF reads = <<>>
    THEN [ok |-> TRUE, metrics |-> m, cause |-> <<>>]
    ELSE LET r == Head(reads)
         IN  IF r.kind = "tx"
             THEN ScanReads(AddSoroban(Classify(m, r), r), Tail(reads))
             ELSE IF IsUnknownTxHash(r.msg)
                  THEN ScanReads(CountUnknown(m), Tail(reads))
                  ELSE [ok |-> FALSE, metrics |-> m, cause |-> r.msg]

\* the rate of a scanned record against the previous close time read
WithRate(m, previous) ==
    [m EXCEPT !.TransactionsPerSecond =
        Quotient(m.SuccessfulOperationCount, RateDivisor(previous, m.ClosedAt))]

\* ProcessLedger from call to return on a Processor whose stored close time is
\* previous: the values returned and the close time stored afterwards
ProcessLedgerCall(previous, block) ==
    IF ~block.opens
    THEN [ret |-> ReturnError("error creating transaction reader", <<>>),
          stored |-> previous]
    ELSE LET scan == ScanReads(NewMetrics(block.ClosedAt), block.reads)
         IN  IF ~scan.ok
             THEN [ret |-> ReturnError("error reading transaction", scan.cause),
                   stored |-> previous]
             ELSE [ret |-> ReturnResult(WithRate(scan.metrics, previous)),
                   stored |-> StoredCloseTime(previous, block.ClosedAt)]

\* ------------------------------------------------------ several Processors
Instances == {"A", "B"}

\* the reads of the blocks given to them: a successful transaction of two
\* operations (a call fails where the reader cannot be created)
InstanceReads ==
    {[kind |-> "tx", ops |-> 2, FeeCharged |-> 3, Successful |-> TRUE,
      Envelope |-> PlainEnvelope]}

InstanceBlocks == BlocksOver(InstanceReads)

NoBlock == [ClosedAt |-> ZeroTime, opens |-> FALSE, reads |-> <<>>]

\* variant: the close time is kept in one place for all Processors
SetFieldOfAll(store, i, t) == [j \in DOMAIN store |-> t]

\* p.PreviousLedgerCloseTime = ... through the pointer receiver of Processor i
SetField(store, i, t) == [store EXCEPT ![i] = t]

InitInstances ==
    /\ instPrev = [i \in Instances |-> ZeroTime]
    /\ instRet = [i \in Instances |-> NoReturn]
    /\ instBlock = [i \in Instances |-> NoBlock]
    /\ instFresh = [i \in Instances |-> TRUE]
    /\ instFirst = [i \in Instances |-> FALSE]
    /\ shadowPrev = ZeroTime
    /\ shadowRet = NoReturn
    /\ phase = 0

\* variant: the new Processor takes over the stored close time of the old one
NewProcessorKeepsTime(i) ==
    /\ UNCHANGED nonInstVars
    /\ ~instFresh[i]
    /\ instRet' = [instRet EXCEPT ![i] = NoReturn]
    /\ instBlock' = [instBlock EXCEPT ![i] = NoBlock]
    /\ instFresh' = [instFresh EXCEPT ![i] = TRUE]
    /\ instFirst' = [instFirst EXCEPT ![i] = FALSE]
    /\ IF i = "A"
       THEN shadowRet' = NoReturn /\ phase' = 0 /\ UNCHANGED shadowPrev
       ELSE UNCHANGED <<shadowPrev, shadowRet, phase>>
    /\ UNCHANGED instPrev

\* NewProcessor in place of Processor i
NewProcessorOf(i) ==
    /\ UNCHANGED nonInstVars
    /\ ~instFresh[i]
    /\ instPrev' = [instPrev EXCEPT ![i] = ZeroTime]
    /\ instRet' = [instRet EXCEPT ![i] = NoReturn]
    /\ instBlock' = [instBlock EXCEPT ![i] = NoBlock]
    /\ instFresh' = [instFresh EXCEPT ![i] = TRUE]
    /\ instFirst' = [instFirst EXCEPT ![i] = FALSE]
    /\ IF i = "A"
       THEN shadowPrev' = ZeroTime /\ shadowRet' = NoReturn /\ phase' = 0
       ELSE UNCHANGED <<shadowPrev, shadowRet, phase>>

\* one whole ProcessLedger call on Processor i
ProcessLedgerOn(i, block) ==
    /\ UNCHANGED nonInstVars
    /\ LET out == ProcessLedgerCall(instPrev[i], block)
       IN  /\ instPrev' = IF out.ret.hasResult
                          THEN SetField(instPrev, i, out.stored)
                          ELSE instPrev
           /\ instRet' = [instRet EXCEPT ![i] = out.ret]
    /\ instBlock' = [instBlock EXCEPT ![i] = block]
    /\ instFirst' = [instFirst EXCEPT ![i] = instFresh[i]]
    /\ instFresh' = [instFresh EXCEPT ![i] = FALSE]
    /\ IF i = "A"
       THEN LET alone == ProcessLedgerCall(shadowPrev, block)
            IN  /\ shadowPrev' = alone.stored
                /\ shadowRet' = alone.ret
       ELSE UNCHANGED <<shadowPrev, shadowRet>>
    /\ phase' = CASE i = "A" /\ phase = 0 -> 1
                  [] i = "B" /\ phase = 1 -> 2
                  [] i = "A" /\ phase = 2 -> 3
                  [] OTHER -> phase

\* ------------------------------------------- overlapping calls on one Processor
Callers == {"c1", "c2"}

\* the blocks of overlapping calls: one successful transaction of two
\* operations each, told apart by their close times, or no reader
OverlapBlocks ==
    {b \in BlocksOver(InstanceReads) : b.opens => Len(b.reads) = 1}

Other(c) == CHOOSE d \in Callers : d # c

Running(c) == ovPc[c] # "idle"

InitOverlap ==
    /\ ovStored = ZeroTime
    /\ ovPc = [c \in Callers |-> "idle"]
    /\ ovLocal = [c \in Callers |-> NewMetrics(ZeroTime)]
    /\ ovNonZero = [c \in Callers |-> FALSE]
    /\ ovRet = [c \in Callers |-> NoReturn]
    /\ ovStart = ZeroTime
    /\ ovCalls = 0

\* lines 71-126 of a call by caller c: they touch nothing but the arguments
\* and the locals of the call, and a failing call returns from here
BeginCall(c, block) ==
    /\ UNCHANGED nonOverlapVars
    /\ ovPc[c] = "idle"
    /\ LET scan == ScanReads(NewMetrics(block.ClosedAt), block.reads)
       IN  IF ~block.opens
           THEN /\ ovRet' = [ovRet EXCEPT ![c] =
                                ReturnError("error creating transaction reader", <<>>)]
                /\ UNCHANGED <<ovPc, ovLocal, ovStart, ovCalls>>
           ELSE IF ~scan.ok
           THEN /\ ovRet' = [ovRet EXCEPT ![c] =
                                ReturnError("error reading transaction", scan.cause)]
                /\ UNCHANGED <<ovPc, ovLocal, ovStart, ovCalls>>
           ELSE /\ ovLocal' = [ovLocal EXCEPT ![c] = scan.metrics]
                /\ ovPc' = [ovPc EXCEPT ![c] = "test"]
                /\ ovStart' = IF Running(Other(c)) THEN ovStart ELSE ovStored
                /\ ovCalls' = IF Running(Other(c))
                              THEN (IF ovCalls < 3 THEN ovCalls + 1 ELSE ovCalls)
                              ELSE 1
                /\ UNCHANGED ovRet
    /\ UNCHANGED <<ovStored, ovNonZero>>

\* variant: the Processor is locked from the test to the store
TestPreviousLocked(c) ==
    /\ UNCHANGED nonOverlapVars
    /\ ovPc[c] = "test"
    /\ ovPc[Other(c)] \notin {"rate", "store"}
    /\ ovNonZero' = [ovNonZero EXCEPT ![c] = ~IsZero(ovStored)]
    /\ ovPc' = [ovPc EXCEPT ![c] = "rate"]
    /\ UNCHANGED <<ovStored, ovLocal, ovRet, ovStart, ovCalls>>

\* line 129: the first read of p.PreviousLedgerCloseTime
TestPrevious(c) ==
    /\ UNCHANGED nonOverlapVars
    /\ ovPc[c] = "test"
    /\ ovNonZero' = [ovNonZero EXCEPT ![c] = ~IsZero(ovStored)]
    /\ ovPc' = [ovPc EXCEPT ![c] = "rate"]
    /\ UNCHANGED <<ovStored, ovLocal, ovRet, ovStart, ovCalls>>

\* lines 131-142: the second read of p.PreviousLedgerCloseTime, where line 129
\* found it set, and the rate
ComputeRateOf(c) ==
    /\ UNCHANGED nonOverlapVars
    /\ ovPc[c] = "rate"
    /\ ovLocal' = [ovLocal EXCEPT ![c] =
                      WithRate(ovLocal[c], IF ovNonZero[c] THEN ovStored ELSE ZeroTime)]
    /\ ovPc' = [ovPc EXCEPT ![c] = "store"]
    /\ UNCHANGED <<ovStored, ovNonZero, ovRet, ovStart, ovCalls>>

\* line 145 and the return, where the locals of the call end
StoreAndReturnOf(c) ==
    /\ UNCHANGED nonOverlapVars
    /\ ovPc[c] = "store"
    /\ ovStored' = StoredCloseTime(ovStored, ovLocal[c].ClosedAt)
    /\ ovRet' = [ovRet EXCEPT ![c] = ReturnResult(ovLocal[c])]
    /\ ovPc' = [ovPc EXCEPT ![c] = "idle"]
    /\ ovLocal' = [ovLocal EXCEPT ![c] = NewMetrics(ZeroTime)]
    /\ ovNonZero' = [ovNonZero EXCEPT ![c] = FALSE]
    /\ UNCHANGED <<ovStart, ovCalls>>

\* ------------------------------------------------------------ entry points
STATUS_OK == 0
STATUS_ERROR == 1
STATUS_INVALID_CONFIG == 2
STATUS_INVALID_LEDGER == 3
STATUS_PROCESSING_ERROR == 4

Passphrases == {"", "Test SDF Network ; September 2015"}

\* what a configuration holds under "network_passphrase": nothing, null,
\* a number, or a string
ConfigValues ==
    {[key |-> "absent", value |-> ""], [key |-> "null", value |-> ""],
     [key |-> "number", value |-> ""]}
        \cup [key : {"string"}, value : Passphrases]

\* the config map given to Initialize
ConfigMaps == [wellFormed : {TRUE}, key : {"absent", "null", "number", "string"},
               value : Passphrases] \cap
              {[wellFormed |-> TRUE, key |-> v.key, value |-> v.value] : v \in ConfigValues}

\* the text given to initialize: a JSON object, or text that is no JSON
ConfigJSONs ==
    ConfigMaps \cup {[wellFormed |-> FALSE, key |-> "absent", value |-> ""]}

NoConfig == [wellFormed |-> FALSE, key |-> "none", value |-> ""]

\* a nil *core.Processor
NilProcessor == [isNil |-> TRUE, NetworkPassphrase |-> "",
                 PreviousLedgerCloseTime |-> ZeroTime]

\* core.NewProcessor(config)
NewProcessor(passphrase) ==
    [isNil |-> FALSE, NetworkPassphrase |-> passphrase,
     PreviousLedgerCloseTime |-> ZeroTime]

\* core.ParseConfig: json.Unmarshal into Config; a missing or null key leaves
\* the zero value and is no error, a number under the key is one
ParseConfig(config) ==
    [err |-> ~config.wellFormed \/ config.key = "number",
     NetworkPassphrase |-> IF config.key = "string" THEN config.value ELSE ""]

EntryBlocks == BlocksOver(InstanceReads)

\* the downstream consumers and processors a host can register
Subscribers == {"s1", "s2"}

\* the blocks given to the adapter while subscribers are registered
PluginBlocks == {b \in EntryBlocks : b.opens => Len(b.reads) = 1}

Hosts == {"adapter", "module"}

\* a call of Initialize, initialize, RegisterConsumer or Subscribe
Entry(name, config, failed, code, err) ==
    [entry |-> name, config |-> config, failed |-> failed, code |-> code,
     err |-> err,
     inputOk |-> TRUE, block |-> NoBlock, ret |-> NoReturn, first |-> FALSE]

\* a call of Process or processLedger: whether the input was a ledger, the
\* block, what ProcessLedger returned, and whether the processor had returned
\* no record before
CallEntry(name, inputOk, block, r, first, failed, code, err) ==
    [entry |-> name, config |-> NoConfig, failed |-> failed, code |-> code,
     err |-> err,
     inputOk |-> inputOk, block |-> block, ret |-> r, first |-> first]

\* New() and the nil global of the module
InitEntry ==
    /\ adapterProcessor = NilProcessor
    /\ adapterNetworkPassphrase = ""
    /\ processor = NilProcessor
    /\ consumers = <<>>
    /\ processors = <<>>
    /\ lastEntry = Entry("none", NoConfig, FALSE, STATUS_OK, "")
    /\ delivered = <<>>
    /\ usedSince = [h \in Hosts |-> FALSE]
    /\ usedBefore = [h \in Hosts |-> FALSE]

\* the processor of a host is replaced by a new one
Replaced(h) ==
    /\ usedBefore' = [usedBefore EXCEPT ![h] = @ \/ usedSince[h]]
    /\ usedSince' = [usedSince EXCEPT ![h] = FALSE]

\* variant: Initialize starts from the empty lists of New()
InitializeResetsSubscribers(config) ==
    /\ UNCHANGED nonEntryVars
    /\ IF config.key # "string"
       THEN /\ lastEntry' = Entry("Initialize", config, TRUE, STATUS_ERROR,
                                  "missing network_passphrase in config")
            /\ UNCHANGED <<adapterProcessor, adapterNetworkPassphrase,
                           usedSince, usedBefore>>
       ELSE /\ adapterNetworkPassphrase' = config.value
            /\ adapterProcessor' = NewProcessor(config.value)
            /\ lastEntry' = Entry("Initialize", config, FALSE, STATUS_OK, "")
            /\ Replaced("adapter")
    /\ consumers' = <<>>
    /\ processors' = <<>>
    /\ delivered' = <<>>
    /\ UNCHANGED processor

\* PluginAdapter.Initialize
Initialize(config) ==
    /\ UNCHANGED nonEntryVars
    /\ IF config.key # "string"
       THEN /\ lastEntry' = Entry("Initialize", config, TRUE, STATUS_ERROR,
                                  "missing network_passphrase in config")
            /\ UNCHANGED <<adapterProcessor, adapterNetworkPassphrase,
                           usedSince, usedBefore>>
       ELSE /\ adapterNetworkPassphrase' = config.value
            /\ adapterProcessor' = NewProcessor(config.value)
            /\ lastEntry' = Entry("Initialize", config, FALSE, STATUS_OK, "")
            /\ Replaced("adapter")
    /\ delivered' = <<>>
    /\ UNCHANGED <<processor, consumers, processors>>

\* PluginAdapter.RegisterConsumer, for at most MaxSubscribers registrations
RegisterConsumer(consumer) ==
    /\ UNCHANGED nonEntryVars
    /\ Len(consumers) + Len(processors) < MaxSubscribers
    /\ consumers' = Append(consumers, consumer)
    /\ lastEntry' = Entry("RegisterConsumer", NoConfig, FALSE, STATUS_OK, "")
    /\ delivered' = <<>>
    /\ UNCHANGED <<adapterProcessor, adapterNetworkPassphrase, processor,
                   processors, usedSince, usedBefore>>

\* PluginAdapter.Subscribe, for at most MaxSubscribers registrations
Subscribe(proc) ==
    /\ UNCHANGED nonEntryVars
    /\ Len(consumers) + Len(processors) < MaxSubscribers
    /\ processors' = Append(processors, proc)
    /\ lastEntry' = Entry("Subscribe", NoConfig, FALSE, STATUS_OK, "")
    /\ delivered' = <<>>
    /\ UNCHANGED <<adapterProcessor, adapterNetworkPassphrase, processor,
                   consumers, usedSince, usedBefore>>

\* one Process call on each subscriber of a list, in the order of the list;
\* the subscribers in fails return an error, which is logged
Offers(subs, role, payload, fails) ==
    [i \in 1..Len(subs) |->
        [to |-> subs[i], role |-> role, payload |-> payload,
         err |-> subs[i] \in fails]]

\* variant: the first subscriber that returns an error ends the forwarding
FanOutStopsAtError(payload, fails) ==
    LET all == Offers(consumers, "consumer", payload, fails)
                  \o Offers(processors, "processor", payload, fails)
        stops == {i \in 1..Len(all) : all[i].err}
    IN  IF stops = {} THEN all
        ELSE SubSeq(all, 1, CHOOSE i \in stops : \A j \in stops : i <= j)

\* the two forwarding loops of Process
FanOut(payload, fails) ==
    Offers(consumers, "consumer", payload, fails)
        \o Offers(processors, "processor", payload, fails)

\* variant: the forwarding loops run before the error of ProcessLedger is looked at
ForwardAlways(r, fails) == FanOut(r.result, fails)

\* what Process forwards after ProcessLedger returned r
ForwardOnReturn(r, fails) ==
    IF r.hasErr THEN <<>> ELSE FanOut(r.result, fails)

\* PluginAdapter.Process: payloadOk is the type assertion on msg.Payload; a
\* call through a nil processor panics at the read of p.NetworkPassphrase
Process(payloadOk, block, fails) ==
    /\ UNCHANGED nonEntryVars
    /\ IF ~payloadOk
       THEN /\ lastEntry' = CallEntry("Process", FALSE, NoBlock, NoReturn, FALSE,
                                      TRUE, STATUS_ERROR, "expected xdr.LedgerCloseMeta")
            /\ delivered' = <<>>
            /\ UNCHANGED <<adapterProcessor, usedSince>>
       ELSE IF adapterProcessor.isNil
       THEN /\ lastEntry' = CallEntry("Process panics", TRUE, block, NoReturn, FALSE,
                                      TRUE, STATUS_ERROR, "nil pointer dereference")
            /\ delivered' = <<>>
            /\ UNCHANGED <<adapterProcessor, usedSince>>
       ELSE LET out == ProcessLedgerCall(adapterProcessor.PreviousLedgerCloseTime, block)
            IN  /\ adapterProcessor' =
                       [adapterProcessor EXCEPT !.PreviousLedgerCloseTime = out.stored]
                /\ lastEntry' = CallEntry("Process", TRUE, block, out.ret,
                                          ~usedSince["adapter"], out.ret.hasErr,
                                          IF out.ret.hasErr THEN STATUS_ERROR ELSE STATUS_OK,
                                          out.ret.err)
                /\ delivered' = ForwardOnReturn(out.ret, fails)
                /\ usedSince' = [usedSince EXCEPT !["adapter"] = @ \/ out.ret.hasResult]
    /\ UNCHANGED <<adapterNetworkPassphrase, processor, consumers, processors,
                   usedBefore>>

\* variant: a config that cannot be parsed discards the processor
initializeClearsOnFailure(configJSON) ==
    /\ UNCHANGED nonEntryVars
    /\ LET parsed == ParseConfig(configJSON)
       IN  IF parsed.err
           THEN /\ lastEntry' = Entry("initialize", configJSON, TRUE, STATUS_INVALID_CONFIG,
                                      "")
                /\ processor' = NilProcessor
                /\ UNCHANGED <<usedSince, usedBefore>>
           ELSE /\ processor' = NewProcessor(parsed.NetworkPassphrase)
                /\ lastEntry' = Entry("initialize", configJSON, FALSE, STATUS_OK, "")
                /\ Replaced("module")
    /\ delivered' = <<>>
    /\ UNCHANGED <<adapterProcessor, adapterNetworkPassphrase, consumers, processors>>

\* variant: a processor that exists is given the new passphrase and kept
initializeKeepsProcessor(configJSON) ==
    /\ UNCHANGED nonEntryVars
    /\ LET parsed == ParseConfig(configJSON)
       IN  IF parsed.err
           THEN /\ lastEntry' = Entry("initialize", configJSON, TRUE, STATUS_INVALID_CONFIG,
                                      "")
                /\ UNCHANGED <<processor, usedSince, usedBefore>>
           ELSE /\ processor' =
                       IF processor.isNil
                       THEN NewProcessor(parsed.NetworkPassphrase)
                       ELSE [processor EXCEPT !.NetworkPassphrase = parsed.NetworkPassphrase]
                /\ lastEntry' = Entry("initialize", configJSON, FALSE, STATUS_OK, "")
                /\ Replaced("module")
    /\ delivered' = <<>>
    /\ UNCHANGED <<adapterProcessor, adapterNetworkPassphrase, consumers, processors>>

\* initialize of the WebAssembly module
initialize(configJSON) ==
    /\ UNCHANGED nonEntryVars
    /\ LET parsed == ParseConfig(configJSON)
       IN  IF parsed.err
           THEN /\ lastEntry' = Entry("initialize", configJSON, TRUE, STATUS_INVALID_CONFIG,
                                      "")
                /\ UNCHANGED <<processor, usedSince, usedBefore>>
           ELSE /\ processor' = NewProcessor(parsed.NetworkPassphrase)
                /\ lastEntry' = Entry("initialize", configJSON, FALSE, STATUS_OK, "")
                /\ Replaced("module")
    /\ delivered' = <<>>
    /\ UNCHANGED <<adapterProcessor, adapterNetworkPassphrase, consumers, processors>>

\* processLedger of the WebAssembly module: ledgerOk is json.Unmarshal of the
\* text into a LedgerCloseMeta
processLedger(ledgerOk, block) ==
    /\ UNCHANGED nonEntryVars
    /\ IF processor.isNil
       THEN /\ lastEntry' = CallEntry("processLedger", ledgerOk,
                                      IF ledgerOk THEN block ELSE NoBlock,
                                      NoReturn, FALSE, TRUE, STATUS_ERROR,
                                      "Processor not initialized")
            /\ UNCHANGED <<processor, usedSince>>
       ELSE IF ~ledgerOk
       THEN /\ lastEntry' = CallEntry("processLedger", FALSE, NoBlock, NoReturn, FALSE,
                                      TRUE, STATUS_INVALID_LEDGER, "Invalid ledger data")
            /\ UNCHANGED <<processor, usedSince>>
       ELSE LET out == ProcessLedgerCall(processor.PreviousLedgerCloseTime, block)
            IN  /\ processor' = [processor EXCEPT !.PreviousLedgerCloseTime = out.stored]
                /\ lastEntry' = CallEntry("processLedger", TRUE, block, out.ret,
                                          ~usedSince["module"], out.ret.hasErr,
                                          IF out.ret.hasErr THEN STATUS_PROCESSING_ERROR
                                                            ELSE STATUS_OK,
                                          IF out.ret.hasErr THEN "Failed to process ledger"
                                                            ELSE "")
                /\ usedSince' = [usedSince EXCEPT !["module"] = @ \/ out.ret.hasResult]
    /\ delivered' = <<>>
    /\ UNCHANGED <<adapterProcessor, adapterNetworkPassphrase, consumers, processors,
                   usedBefore>>

\* ---------------------------------------------------------- specifications
Init ==
    /\ InitCore
    /\ InitFailures
    /\ InitInstances
    /\ InitOverlap
    /\ InitEntry

Next ==
    \/ \E closedAt \in Times, openOk \in BOOLEAN :
            OpenLedger(closedAt, openOk) /\ UNCHANGED failVars
    \/ \E tx \in Transactions : ReadTx(tx) /\ UNCHANGED failVars
    \/ \E msg \in ReadErrorMsgs, fee \in Fees :
            ReadError(msg, fee) /\ UNCHANGED failVars
    \/ ReadEOF /\ UNCHANGED failVars
    \/ ComputeRate /\ UNCHANGED failVars
    \/ StoreAndReturn /\ UNCHANGED failVars

Spec == Init /\ [][Next]_vars

\* the same calls over blocks of few record kinds, with the history of the
\* calls that failed
NextCalls ==
    \/ \E closedAt \in Times, openOk \in BOOLEAN :
            OpenLedger(closedAt, openOk) /\ TrackFailures
    \/ \E tx \in CallReads : ReadTx(tx) /\ TrackFailures
    \/ \E msg \in CallErrorMsgs, fee \in CallFees :
            ReadError(msg, fee) /\ TrackFailures
    \/ ReadEOF /\ TrackFailures
    \/ ComputeRate /\ TrackFailures
    \/ StoreAndReturn /\ TrackFailures

SpecCalls == Init /\ [][NextCalls]_vars

\* a step of a call that has begun: ProcessLedger has one thread of control
\* and no step of it waits for anything
CallStep == pc # "idle" /\ NextCalls

SpecCallsFair == SpecCalls /\ WF_vars(CallStep)

\* two Processors, called in any order, one whole call at a time
NextInstances ==
    \/ \E i \in Instances : NewProcessorOf(i)
    \/ \E i \in Instances, block \in InstanceBlocks : ProcessLedgerOn(i, block)

SpecInstances == Init /\ [][NextInstances]_vars

\* two callers of one Processor, their calls interleaved step by step
NextOverlap ==
    \/ \E c \in Callers, block \in OverlapBlocks : BeginCall(c, block)
    \/ \E c \in Callers : TestPrevious(c)
    \/ \E c \in Callers : ComputeRateOf(c)
    \/ \E c \in Callers : StoreAndReturnOf(c)

SpecOverlap == Init /\ [][NextOverlap]_vars

\* the host calling the entry points of the adapter and of the module
NextEntry ==
    \/ \E config \in ConfigMaps : Initialize(config)
    \/ \E payloadOk \in BOOLEAN, block \in EntryBlocks : Process(payloadOk, block, {})
    \/ \E configJSON \in ConfigJSONs : initialize(configJSON)
    \/ \E ledgerOk \in BOOLEAN, block \in EntryBlocks : processLedger(ledgerOk, block)

SpecEntry == Init /\ [][NextEntry]_vars

\* the host of the adapter registering subscribers and sending messages
NextPlugin ==
    \/ \E config \in ConfigMaps : Initialize(config)
    \/ \E consumer \in Subscribers : RegisterConsumer(consumer)
    \/ \E proc \in Subscribers : Subscribe(proc)
    \/ \E payloadOk \in BOOLEAN, block \in PluginBlocks, fails \in SUBSET Subscribers :
            Process(payloadOk, block, fails)

SpecPlugin == Init /\ [][NextPlugin]_vars

\* ------------------------------------------------- operators of the claims
\* the record under construction or, once the call has returned one, the
\* record returned
Records == {metrics} \cup (IF ret.hasResult THEN {ret.result} ELSE {})

ReadRecords(s) == SelectSeq(s, LAMBDA r : r.kind = "tx")
UnknownRecords(s) == SelectSeq(s, LAMBDA r : r.kind = "unknown")
SuccessfulRecords(s) == SelectSeq(s, LAMBDA r : r.kind = "tx" /\ r.Successful)
FailedRecords(s) == SelectSeq(s, LAMBDA r : r.kind = "tx" /\ ~r.Successful)

RECURSIVE SumFeeCharged(_)
SumFeeCharged(s) ==
    IF s = <<>> THEN 0 ELSE Head(s).FeeCharged + SumFeeCharged(Tail(s))

RECURSIVE SumOps(_)
SumOps(s) == IF s = <<>> THEN 0 ELSE Head(s).ops + SumOps(Tail(s))

\* equality of two quotients with positive divisors
SameQuotient(q, a, b) == q.den > 0 /\ b > 0 /\ q.num * b = a * q.den

\* C1: in every record, under construction or returned, transaction_count =
\* successful_tx_count + failed_tx_count, whatever records the block holds.
C1_CountsAddUp ==
    \A m \in Records : m.TransactionCount = m.SuccessfulTxCount + m.FailedTxCount

\* a returned record of a block that mixes an unknown record with a successful one
C1_Witness ==
    /\ ret.hasResult
    /\ Len(UnknownRecords(consumed)) > 0
    /\ Len(SuccessfulRecords(consumed)) > 0
    /\ ret.result.TransactionCount = 2

\* C2: in every record, under construction or returned,
\* tx_set_operation_count >= successful_operation_count >= 0.
C2_OperationCounts ==
    \A m \in Records :
        /\ m.TxSetOperationCount >= m.SuccessfulOperationCount
        /\ m.SuccessfulOperationCount >= 0

\* a returned record with a successful and a failed transaction
C2_Witness ==
    /\ ret.hasResult
    /\ ret.result.SuccessfulOperationCount > 0
    /\ ret.result.TxSetOperationCount > ret.result.SuccessfulOperationCount

\* C3 as stated: total_fee_charged of a returned record is the sum of the
\* reported fee of every transaction of the block, unknown ones included.
C3_FeesOfAllRecords ==
    ret.hasResult => ret.result.TotalFeeCharged = SumFeeCharged(consumed)

\* C3 amended: total_fee_charged of a returned record is the sum of the fee of
\* every transaction the reader returned, failed ones included; a record the
\* reader reports as unknown adds nothing.
C3_FeesOfReadRecords ==
    ret.hasResult =>
        ret.result.TotalFeeCharged = SumFeeCharged(ReadRecords(consumed))

\* a returned record of a block with a failed transaction and an unknown record
C3_Witness ==
    /\ ret.hasResult
    /\ Len(FailedRecords(consumed)) > 0
    /\ Len(UnknownRecords(consumed)) > 0
    /\ ret.result.TotalFeeCharged > 0

\* the reader's failure messages that contain "unknown tx hash"
UnknownClassMsgs == {UnknownHashMsg, WrappedUnknownHashMsg}

\* a step of the scan that took in a record the reader reported as unknown
UnknownStep ==
    /\ pc = "scan"
    /\ Len(consumed') = Len(consumed) + 1
    /\ consumed'[Len(consumed')].kind = "unknown"

\* C4: a read that fails with a message containing "unknown tx hash" never
\* fails the call; it adds exactly 1 to transaction_count, failed_tx_count and
\* unknown_tx_count, nothing to the other accumulators, and the scan goes on;
\* the returned unknown_tx_count is the number of such records of the block.
C4_UnknownTolerated ==
    /\ [](/\ (ret.hasErr /\ ret.err = "error reading transaction")
                => ret.cause \notin UnknownClassMsgs
          /\ ret.hasResult
                => ret.result.UnknownTxCount = Len(UnknownRecords(consumed)))
    /\ [][UnknownStep =>
            /\ metrics' = [metrics EXCEPT
                              !.TransactionCount = metrics.TransactionCount + 1,
                              !.FailedTxCount = metrics.FailedTxCount + 1,
                              !.UnknownTxCount = metrics.UnknownTxCount + 1]
            /\ pc' = "scan"
            /\ ~ret'.returned]_vars

\* a returned record of a block whose records were all reported as unknown,
\* by either message
C4_Witness ==
    /\ ret.hasResult
    /\ ret.result.UnknownTxCount = 2
    /\ consumed[1].msg = WrappedUnknownHashMsg
    /\ consumed[2].msg = UnknownHashMsg
    /\ ret.result.TotalFeeCharged = 0

\* C5: a read that fails with any other message ends the call at that record
\* with an error and no record, however many records were read before; no
\* such failure is ever taken for an unknown record.
C5_OtherFailureFatal ==
    /\ \A i \in 1..Len(consumed) :
          consumed[i].kind = "unknown" => consumed[i].msg \in UnknownClassMsgs
    /\ ret.err = "error reading transaction" =>
          /\ ret.hasErr
          /\ ~ret.hasResult
          /\ pc = "idle"

\* a call that failed on a near-miss message after it had read a record
C5_Witness ==
    /\ ret.err = "error reading transaction"
    /\ ret.cause = NearMissMsg
    /\ Len(consumed) > 0

\* C6: a finished call has returned either a complete record and no error or
\* an error and no record; a block that cannot be opened gives the latter.
C6_RecordOrError ==
    ret.returned =>
        /\ ret.hasResult # ret.hasErr
        /\ ret.hasResult =>
              /\ rateBranch # "none"
              /\ ret.result.TransactionCount = Len(consumed)
        /\ ret.err = "error creating transaction reader" =>
              /\ ~ret.hasResult
              /\ consumed = <<>>

\* a block that could not be opened, after a block that returned a record
C6_Witness ==
    /\ ret.returned
    /\ ret.err = "error creating transaction reader"
    /\ processedAny

\* C7: the first record an instance returns has transactions_per_second =
\* successful_operation_count / 5, whatever the close time of its block.
C7_Bootstrap ==
    (ret.hasResult /\ ~priorAny) =>
        SameQuotient(ret.result.TransactionsPerSecond,
                     ret.result.SuccessfulOperationCount, 5)

\* a first record with successful operations and a close time past zero
C7_Witness ==
    /\ ret.hasResult
    /\ ~priorAny
    /\ ret.result.SuccessfulOperationCount > 0
    /\ ret.result.ClosedAt > ZeroTime

\* C8: when the instance holds a stored previous close time T and the block
\* closes d > 0 seconds after T, transactions_per_second =
\* successful_operation_count / d, T being the close time of the block that
\* returned a record immediately before.
C8_Elapsed ==
    (/\ ret.hasResult
     /\ priorAny
     /\ ~IsZero(priorClosedAt)
     /\ ret.result.ClosedAt - priorClosedAt > 0) =>
        SameQuotient(ret.result.TransactionsPerSecond,
                     ret.result.SuccessfulOperationCount,
                     ret.result.ClosedAt - priorClosedAt)

\* a record with successful operations returned 2 seconds after the one before
C8_Witness ==
    /\ ret.hasResult
    /\ priorAny
    /\ ~IsZero(priorClosedAt)
    /\ ret.result.ClosedAt - priorClosedAt = 2
    /\ ret.result.SuccessfulOperationCount > 0

\* C9: when the block closes at or before the stored previous close time,
\* transactions_per_second = successful_operation_count / 5; the divisor of a
\* computed rate is never zero or negative.
C9_Fallback ==
    /\ (ret.hasResult /\ priorAny /\ ret.result.ClosedAt <= priorClosedAt) =>
          SameQuotient(ret.result.TransactionsPerSecond,
                       ret.result.SuccessfulOperationCount, 5)
    /\ rateBranch # "none" => timeDiff > 0
    /\ \A m \in Records : m.TransactionsPerSecond.den > 0

\* records with successful operations returned for a block that closes at the
\* same time as the one before
C9_Witness ==
    /\ ret.hasResult
    /\ priorAny
    /\ ~IsZero(priorClosedAt)
    /\ ret.result.ClosedAt = priorClosedAt
    /\ ret.result.SuccessfulOperationCount > 0

\* C10: after a call returns a record the stored previous close time is that
\* record's closed_at, on every rate branch; at any time it is the close time
\* of the last block that returned a record.
C10_StoredIsLast ==
    /\ ret.hasResult => PreviousLedgerCloseTime = ret.result.ClosedAt
    /\ processedAny => PreviousLedgerCloseTime = lastClosedAt

\* a record returned on the fallback branch for a block that closes before
\* the one before it
C10_Witness ==
    /\ ret.hasResult
    /\ rateBranch = "fallback"
    /\ ret.result.ClosedAt < priorClosedAt
    /\ PreviousLedgerCloseTime = ret.result.ClosedAt

WithDescriptor(s) ==
    SelectSeq(s, LAMBDA r : /\ r.kind = "tx"
                            /\ r.Envelope.Type \in {"Tx", "TxFeeBump"}
                            /\ r.Envelope.Ext.has)

RECURSIVE SumResourceFee(_)
SumResourceFee(s) ==
    IF s = <<>> THEN 0 ELSE Head(s).Envelope.Ext.ResourceFee + SumResourceFee(Tail(s))

RECURSIVE SumInstructions(_)
SumInstructions(s) ==
    IF s = <<>> THEN 0 ELSE Head(s).Envelope.Ext.Instructions + SumInstructions(Tail(s))

\* C13: soroban_tx_count, total_soroban_fees and total_resource_instructions
\* of a returned record are the number, the resource fees and the instruction
\* counts of exactly the read transactions that carry a descriptor, for both
\* envelope variants.
C13_SorobanTotals ==
    ret.hasResult =>
        /\ ret.result.SorobanTxCount = Len(WithDescriptor(consumed))
        /\ ret.result.TotalSorobanFees = SumResourceFee(WithDescriptor(consumed))
        /\ ret.result.TotalResourceInstructions =
              SumInstructions(WithDescriptor(consumed))

\* a returned record of a block with a descriptor on a plain envelope and one
\* on the inner transaction of a fee-bump envelope
C13_Witness ==
    /\ ret.hasResult
    /\ ret.result.SorobanTxCount = 2
    /\ \E i, j \in 1..Len(consumed) :
          /\ consumed[i].kind = "tx" /\ consumed[i].Envelope.Type = "Tx"
          /\ consumed[j].kind = "tx" /\ consumed[j].Envelope.Type = "TxFeeBump"

\* a step of the scan that took in a transaction without a descriptor or with
\* an envelope that is neither plain nor fee-bump
NoDescriptorStep ==
    /\ pc = "scan"
    /\ Len(consumed') = Len(consumed) + 1
    /\ LET r == consumed'[Len(consumed')]
       IN  /\ r.kind = "tx"
           /\ \/ ~r.Envelope.Ext.has
              \/ r.Envelope.Type \notin {"Tx", "TxFeeBump"}

\* C14: a transaction without a descriptor, or with an envelope that is
\* neither plain nor fee-bump, never ends the call; it leaves the three
\* soroban totals as they were and is counted in the transaction, operation
\* and fee counters.
C14_NoDescriptor ==
    [][NoDescriptorStep =>
        LET r == consumed'[Len(consumed')]
        IN  /\ pc' = "scan"
            /\ ~ret'.returned
            /\ metrics'.SorobanTxCount = metrics.SorobanTxCount
            /\ metrics'.TotalSorobanFees = metrics.TotalSorobanFees
            /\ metrics'.TotalResourceInstructions = metrics.TotalResourceInstructions
            /\ metrics'.TransactionCount = metrics.TransactionCount + 1
            /\ metrics'.TxSetOperationCount = metrics.TxSetOperationCount + r.ops
            /\ metrics'.TotalFeeCharged = metrics.TotalFeeCharged + r.FeeCharged
            /\ metrics'.SuccessfulTxCount + metrics'.FailedTxCount =
                  metrics.SuccessfulTxCount + metrics.FailedTxCount + 1]_vars

\* a returned record of a block that holds a TxV0 transaction and a fee-bump
\* transaction without descriptor, and no soroban transaction
C14_Witness ==
    /\ ret.hasResult
    /\ Len(consumed) = 2
    /\ consumed[1].kind = "tx" /\ consumed[1].Envelope.Type = "TxV0"
    /\ consumed[2].kind = "tx" /\ consumed[2].Envelope.Type = "TxFeeBump"
    /\ ~consumed[2].Envelope.Ext.has
    /\ ret.result.SorobanTxCount = 0
    /\ ret.result.TransactionCount = 2

\* C15: the record returned for a block without transactions has every
\* counter at 0 and a rate of 0 over a positive divisor, on whichever rate
\* branch applies, and the stored close time is the block's close time.
C15_EmptyBlock ==
    (ret.hasResult /\ consumed = <<>>) =>
        /\ ret.result = [NewMetrics(ret.result.ClosedAt) EXCEPT
                            !.TransactionsPerSecond = ret.result.TransactionsPerSecond]
        /\ ret.result.TransactionsPerSecond.num = 0
        /\ ret.result.TransactionsPerSecond.den > 0
        /\ rateBranch \in {"bootstrap", "elapsed", "fallback"}
        /\ PreviousLedgerCloseTime = ret.result.ClosedAt

\* a record returned on the elapsed branch for a block without transactions
C15_Witness ==
    /\ ret.hasResult
    /\ consumed = <<>>
    /\ rateBranch = "elapsed"
    /\ PreviousLedgerCloseTime = ret.result.ClosedAt
    /\ priorClosedAt < ret.result.ClosedAt

\* C16: in a returned record tx_set_operation_count is the sum of the
\* operation counts of all read transactions, successful_operation_count the
\* sum over the successful ones, successful_tx_count their number.
C16_OperationSums ==
    ret.hasResult =>
        /\ ret.result.TxSetOperationCount = SumOps(ReadRecords(consumed))
        /\ ret.result.SuccessfulOperationCount = SumOps(SuccessfulRecords(consumed))
        /\ ret.result.SuccessfulTxCount = Len(SuccessfulRecords(consumed))

\* a returned record of a block with a successful two-operation transaction
\* and a failed transaction
C16_Witness ==
    /\ ret.hasResult
    /\ Len(FailedRecords(consumed)) = 1
    /\ Len(SuccessfulRecords(consumed)) = 1
    /\ ret.result.SuccessfulOperationCount = 2
    /\ ret.result.SuccessfulTxCount = 1

C18_InstancesIndependent ==
    /\ instPrev["A"] = shadowPrev
    /\ instRet["A"] = shadowRet

\* A has returned a record on the elapsed branch after a call on B that
\* followed A's call before, B holding another close time than A
C18_Witness ==
    /\ phase = 3
    /\ instRet["A"].hasResult
    /\ instRet["B"].hasResult
    /\ instRet["A"].result.SuccessfulOperationCount > 0
    /\ instRet["A"].result.TransactionsPerSecond.den = 1
    /\ instPrev["B"] > instPrev["A"]

\* the values two whole calls return one after the other from the stored
\* close time start, and the close time stored after both
SerialOutcome(start, first, second) ==
    LET after == StoredCloseTime(start, first.ClosedAt)
    IN  [first |-> WithRate(first, start),
         second |-> WithRate(second, after),
         stored |-> StoredCloseTime(after, second.ClosedAt)]

\* C19: a Processor has no lock: while one call is between its read of the
\* stored close time and its overwrite, the read of another call on the same
\* Processor is not held back.
C19_NoLocking ==
    \A c \in Callers :
        (ovPc[c] = "test" /\ ovPc[Other(c)] \in {"rate", "store"}) =>
            ENABLED TestPrevious(c)

\* two overlapping calls have returned records, and the pair of records with
\* the close time stored is that of neither serial order of the two calls
C19_Witness ==
    /\ ovCalls = 2
    /\ ~Running("c1")
    /\ ~Running("c2")
    /\ ovRet["c1"].hasResult
    /\ ovRet["c2"].hasResult
    /\ LET r1 == ovRet["c1"].result
           r2 == ovRet["c2"].result
           c1c2 == SerialOutcome(ovStart, r1, r2)
           c2c1 == SerialOutcome(ovStart, r2, r1)
       IN  /\ ~(r1 = c1c2.first /\ r2 = c1c2.second /\ ovStored = c1c2.stored)
           /\ ~(r2 = c2c1.first /\ r1 = c2c1.second /\ ovStored = c2c1.stored)

\* a configuration that holds no passphrase string under the key
WithoutPassphrase(config) == config.wellFormed /\ config.key # "string"

ProcessorOfEntry(name) ==
    IF name = "Initialize" THEN adapterProcessor ELSE processor

\* C17: after Initialize or initialize was called with a configuration
\* without a network passphrase, the call has reported failure and the
\* processor of that entry point is nil.
C17_MissingPassphraseFatal ==
    (/\ lastEntry.entry \in {"Initialize", "initialize"}
     /\ WithoutPassphrase(lastEntry.config)) =>
        /\ lastEntry.failed
        /\ ProcessorOfEntry(lastEntry.entry).isNil

\* C21: a call that returns an error leaves the stored previous close time as
\* it was, which is the close time of the last block that returned a record
\* (zero if there is none); the rate of the next returned record is computed
\* against that block, or by bootstrap if there is none.
C21_FailureKeepsCloseTime ==
    /\ [](/\ PreviousLedgerCloseTime =
                 (IF processedAny THEN lastClosedAt ELSE ZeroTime)
          /\ (ret.hasResult /\ priorFailed) =>
                 SameQuotient(ret.result.TransactionsPerSecond,
                              ret.result.SuccessfulOperationCount,
                              RateDivisor(IF priorAny THEN priorClosedAt ELSE ZeroTime,
                                          ret.result.ClosedAt)))
    /\ [][FailingStep => PreviousLedgerCloseTime' = PreviousLedgerCloseTime]_vars

\* a record returned on the elapsed branch, against a block that returned a
\* record before a call failed in between
C21_Witness ==
    /\ ret.hasResult
    /\ priorFailed
    /\ priorAny
    /\ rateBranch = "elapsed"
    /\ ret.result.SuccessfulOperationCount > 0
    /\ timeDiff = ret.result.ClosedAt - priorClosedAt

\* the record without its rate
WithoutRate(m) == [m EXCEPT !.TransactionsPerSecond = Quotient(0, 1)]

\* C22: over a block of at most MaxTxs records, each read taking the next
\* one, a call that has begun returns; the loop is left for the rate only by
\* the read that signals end-of-block, which takes in no record, a record is
\* returned only from there, and its counters are those of one pass over the
\* records read, each once, in the order they were read.
C22_ScanTerminates ==
    /\ (pc # "idle") ~> (pc = "idle" /\ ret.returned)
    /\ [](ret.hasResult =>
            LET scan == ScanReads(NewMetrics(ret.result.ClosedAt), consumed)
            IN  /\ scan.ok
                /\ WithoutRate(ret.result) = scan.metrics
                /\ ret.result.TransactionCount = Len(consumed))
    /\ [][/\ (pc' = "rate" /\ pc # "rate") =>
                (pc = "scan" /\ UNCHANGED <<metrics, consumed>>)
          /\ (ret'.hasResult /\ ret' # ret) => pc = "store"
          /\ (pc' = "store" /\ pc # "store") => pc = "rate"
          /\ (pc = "scan" /\ consumed' # consumed) =>
                (Len(consumed') = Len(consumed) + 1
                    /\ SubSeq(consumed', 1, Len(consumed)) = consumed)]_vars

\* a record returned for a full block that begins with a record reported as
\* unknown and ends with a transaction
C22_Witness ==
    /\ ret.hasResult
    /\ Len(consumed) = MaxTxs
    /\ consumed[1].kind = "unknown"
    /\ consumed[MaxTxs].kind = "tx"
    /\ ret.result.TransactionCount = MaxTxs

\* C28: in every record, returned or under construction, soroban_tx_count is
\* at most transaction_count - unknown_tx_count and unknown_tx_count is at
\* most failed_tx_count.
C28_UnknownBounds ==
    \A m \in Records :
        /\ m.SorobanTxCount <= m.TransactionCount - m.UnknownTxCount
        /\ m.UnknownTxCount <= m.FailedTxCount

\* a returned record of a block with one record reported as unknown and one
\* soroban transaction, where both bounds are met with equality
C28_Witness ==
    /\ ret.hasResult
    /\ ret.result.UnknownTxCount = 1
    /\ ret.result.FailedTxCount = 1
    /\ ret.result.SorobanTxCount = 1
    /\ ret.result.TransactionCount = 2

\* C29: skipped_tx_count is 0 in every record, returned or under
\* construction, and no step changes it.
C29_SkippedIsZero ==
    /\ [](\A m \in Records : m.SkippedTxCount = 0)
    /\ [][metrics'.SkippedTxCount = metrics.SkippedTxCount]_vars

\* a returned record of a block with a failed transaction and a record
\* reported as unknown
C29_Witness ==
    /\ ret.hasResult
    /\ ret.result.SkippedTxCount = 0
    /\ ret.result.UnknownTxCount > 0
    /\ ret.result.FailedTxCount > ret.result.UnknownTxCount

\* C23: when the payload is a ledger and ProcessLedger returns a record,
\* Process returns no error, whichever subscribers return one, and the
\* message has been offered once per registration, to the consumers in the
\* order of their registration and then to the processors in theirs.
C23_FanOut ==
    (/\ lastEntry.entry = "Process"
     /\ lastEntry.inputOk
     /\ lastEntry.ret.hasResult) =>
        /\ ~lastEntry.failed
        /\ Len(delivered) = Len(consumers) + Len(processors)
        /\ \A i \in 1..Len(consumers) :
              /\ delivered[i].to = consumers[i]
              /\ delivered[i].role = "consumer"
        /\ \A j \in 1..Len(processors) :
              /\ delivered[Len(consumers) + j].to = processors[j]
              /\ delivered[Len(consumers) + j].role = "processor"
        /\ \A k \in 1..Len(delivered) : delivered[k].payload = lastEntry.ret.result

\* a Process call that returned no error after a consumer returned one and a
\* processor registered after it was offered the message
C23_Witness ==
    /\ lastEntry.entry = "Process"
    /\ ~lastEntry.failed
    /\ Len(consumers) = 1
    /\ Len(processors) = 1
    /\ Len(delivered) = 2
    /\ delivered[1].err
    /\ delivered[2].role = "processor"

\* C24: a Process call whose payload is no ledger, or whose ProcessLedger
\* returns an error, returns that error and offers the message to nobody; a
\* payload that is no ledger leaves the processor as it was.
C24_ProcessFailure ==
    /\ []((lastEntry.entry = "Process" /\ (~lastEntry.inputOk \/ lastEntry.ret.hasErr)) =>
            /\ lastEntry.failed
            /\ delivered = <<>>
            /\ lastEntry.err = (IF ~lastEntry.inputOk
                                THEN "expected xdr.LedgerCloseMeta"
                                ELSE lastEntry.ret.err))
    /\ [][(lastEntry'.entry = "Process" /\ ~lastEntry'.inputOk) =>
            adapterProcessor' = adapterProcessor]_vars

\* a Process call that failed in ProcessLedger on an adapter with a consumer
\* and a processor registered, after an earlier call returned a record
C24_Witness ==
    /\ lastEntry.entry = "Process"
    /\ lastEntry.ret.hasErr
    /\ lastEntry.failed
    /\ delivered = <<>>
    /\ Len(consumers) > 0
    /\ Len(processors) > 0
    /\ usedSince["adapter"]

\* C27: a call of Initialize leaves both lists of subscribers as they were,
\* and a Process call that succeeds later offers the message to all of them;
\* a failing Initialize leaves the passphrase and the processor as they were.
C27_InitializeFrame ==
    /\ []((lastEntry.entry = "Process" /\ ~lastEntry.failed) =>
            Len(delivered) = Len(consumers) + Len(processors))
    /\ [][lastEntry'.entry = "Initialize" =>
            /\ consumers' = consumers
            /\ processors' = processors
            /\ lastEntry'.failed =>
                  /\ adapterNetworkPassphrase' = adapterNetworkPassphrase
                  /\ adapterProcessor' = adapterProcessor]_vars

\* a failed Initialize on an adapter that has subscribers of both kinds and a
\* processor that has returned a record
C27_Witness ==
    /\ lastEntry.entry = "Initialize"
    /\ lastEntry.failed
    /\ Len(consumers) > 0
    /\ Len(processors) > 0
    /\ ~adapterProcessor.isNil
    /\ ~IsZero(adapterProcessor.PreviousLedgerCloseTime)
    /\ adapterNetworkPassphrase # ""

\* the code processLedger answers with, from the processor before the call
\* and the inputs of the call
ExpectedCode(before, entry) ==
    IF before.isNil THEN STATUS_ERROR
    ELSE IF ~entry.inputOk THEN STATUS_INVALID_LEDGER
    ELSE IF ProcessLedgerCall(before.PreviousLedgerCloseTime, entry.block).ret.hasErr
         THEN STATUS_PROCESSING_ERROR
         ELSE STATUS_OK

\* C25: processLedger answers with code 1 while no initialize has succeeded,
\* with code 3 for an input that is no ledger and with code 4 when
\* ProcessLedger fails; each of these is an error in place of the metrics and
\* leaves the processor with its stored close time as it was. A failed
\* initialize has code 2 and leaves the processor as it was. The processor
\* is nil exactly until an initialize succeeds.
C25_ModuleErrors ==
    [][/\ lastEntry'.entry = "processLedger" =>
            /\ lastEntry'.code = ExpectedCode(processor, lastEntry')
            /\ lastEntry'.failed = (lastEntry'.code # STATUS_OK)
            /\ lastEntry'.failed =>
                  /\ processor' = processor
                  /\ ~lastEntry'.ret.hasResult
                  /\ lastEntry'.code \in {STATUS_ERROR, STATUS_INVALID_LEDGER,
                                          STATUS_PROCESSING_ERROR}
       /\ (lastEntry'.entry = "initialize" /\ lastEntry'.failed) =>
            /\ lastEntry'.code = STATUS_INVALID_CONFIG
            /\ processor' = processor
       /\ (lastEntry'.entry = "initialize" /\ ~lastEntry'.failed) => ~processor'.isNil
       /\ (processor.isNil /\ ~processor'.isNil) =>
            (lastEntry'.entry = "initialize" /\ ~lastEntry'.failed)
       /\ ~processor.isNil => ~processor'.isNil]_vars

\* processLedger has answered with code 4 on a processor that had returned a
\* record before and still holds its close time
C25_Witness ==
    /\ lastEntry.entry = "processLedger"
    /\ lastEntry.code = STATUS_PROCESSING_ERROR
    /\ lastEntry.ret.hasErr
    /\ usedSince["module"]
    /\ ~IsZero(processor.PreviousLedgerCloseTime)

\* C26: an Initialize or initialize that succeeds leaves a processor whose
\* stored close time is zero, and the first record returned after it has the
\* rate successful_operation_count / 5, whatever was processed before.
C26_Reinitialize ==
    /\ []((/\ lastEntry.entry \in {"Process", "processLedger"}
           /\ lastEntry.ret.hasResult
           /\ lastEntry.first) =>
            SameQuotient(lastEntry.ret.result.TransactionsPerSecond,
                         lastEntry.ret.result.SuccessfulOperationCount,
                         BootstrapDivisor))
    /\ [][(lastEntry'.entry \in {"Initialize", "initialize"} /\ ~lastEntry'.failed) =>
            LET new == IF lastEntry'.entry = "Initialize" THEN adapterProcessor'
                                                          ELSE processor'
            IN  /\ ~new.isNil
                /\ IsZero(new.PreviousLedgerCloseTime)]_vars

\* the first record of a processor of the module that replaced one which had
\* returned records
C26_Witness ==
    /\ lastEntry.entry = "processLedger"
    /\ lastEntry.ret.hasResult
    /\ lastEntry.first
    /\ usedBefore["module"]
    /\ lastEntry.ret.result.SuccessfulOperationCount > 0

====
